---- MODULE Spec2Model ----
(***************************************************************************)
(* Tool Execution Scheduler of the autonomous agent: the ToolOrchestrator  *)
(* class (tool registry, bounded concurrency, priority backlog, timeout    *)
(* race, backlog drain and the 1000 ms polling retry).                     *)
(*                                                                         *)
(* JavaScript runs each synchronous stretch of code to completion, so one  *)
(* action is one such stretch: from a call or callback up to the next      *)
(* await that really suspends.                                             *)
(***************************************************************************)
EXTENDS Integers, Sequences, FiniteSets, TLC

\* ---------------------------------------------------------------- bounds
MaxCalls == 3            \* external executeTool calls in one run
MaxQueue == 3            \* cap on the backlog length (guards only)
MaxConcurrentLimit == 2  \* largest value of tools.maxConcurrent considered
CountCap == 2            \* ghost counters saturate here ("2" reads ">= 2")
TimeoutTicks == 2        \* config.tools.timeoutMs, in clock ticks
MaxBackground == 2       \* cap on abandoned executes / stale timers (guards only)
MaxNow == 1              \* Date.now() runs from 0 to this millisecond
RandomValues == 2        \* distinct suffixes Math.random() can give an id
MaxObjects == 2          \* ConfigManager objects that can be told apart
MaxActivations == 2      \* calls of AutonomousAgent.initialize in one run

\* ---------------------------------------------------------------- domains
CallIds == 1..MaxCalls
ToolNames == {"code-analysis", "unknown-tool"}
NoTool == "none"
Priorities == {1, 5}
ParamKinds == {"valid", "invalid"}
ExecuteOutcomes == {"success", "failure", "thrown"}
ExecIds == 1..(MaxConcurrentLimit + 1)

VARIABLES
  tools,              \* Map<string, Tool>: name -> implementation or NoTool
  maxConcurrent,      \* config.tools.maxConcurrent
  executionQueue,     \* ToolExecution[]: the backlog
  runningExecutions,  \* Set<string>: ids of the admitted executions
  execs,              \* suspended executeTool activations that hold a slot
  calls,              \* the external callers and what they got back
  executeCount,       \* ghost: tool.execute invocations per request (capped)
  event,              \* ghost: the step that led to this state
  clock,              \* Date.now() - startTime of the race held by each id
  background,         \* what a decided race leaves behind: execute functions
                      \* still running, timeout timers still pending
  result,             \* the ToolResult the step just taken returned
  cancelled,          \* ghost: where each caller's request stood when the
                      \* caller raised its cancellation signal
  now,                \* Date.now() as generateExecutionId reads it
  env,                \* process.env, the variables ConfigManager reads
  instance,           \* ConfigManager.instance (0: undefined)
  created,            \* ConfigManager objects constructed so far
  config,             \* the private config field of each object
  handed,             \* ghost: the references getInstance has returned
  initialized,        \* ghost: objects on which initialize() has succeeded
  observed,           \* what the last getConfig() call gave its caller
  rules,              \* SecurityValidator.rules
  validation,         \* the last validateInput call: what each rule did with
                      \* the input, and the result returned
  isInitialized,      \* AutonomousAgent.isInitialized
  pc,                 \* where each activation of AutonomousAgent.initialize is
  installs,           \* how often each component's initialize() has run
  response            \* the last processMessage call and what it gave

\* the timeout race in detail, the callers' signals and the wall clock;
\* written only by the steps of RaceSpec, CancelSpec and CollisionSpec
\* the components around the orchestrator; written only by their own steps
configuration == <<env, instance, created, config, handed, initialized, observed>>
security == <<rules, validation>>
agent == <<isInitialized, pc, installs, response>>
components == <<configuration, security, agent>>

extras == <<clock, background, result, cancelled, now, components>>

vars == <<tools, maxConcurrent, executionQueue, runningExecutions, execs,
          calls, executeCount, event, clock, background, result, cancelled,
          now, env, instance, created, config, handed, initialized, observed,
          rules, validation, isInitialized, pc, installs, response>>

\* everything the orchestrator's steps write, but for the event
orchestrator == <<tools, maxConcurrent, executionQueue, runningExecutions, execs,
                  calls, executeCount, clock, background, result, cancelled, now>>

\* ---------------------------------------------------------------- helpers
Min(S) == CHOOSE x \in S : \A y \in S : x <= y

IdleCall == [status |-> "idle", prio |-> 0, params |-> "-"]

\* event: op is the step taken, req the request it is about, id the execution
\* id it admitted or released, origin how that activation of executeTool was
\* started, outcome what the step produced, tool the name a call was made
\* with, to the caller the result was handed to (0: nobody), promoted the
\* request processQueue started in this step (0: none).
NoEvent == [op |-> "init", req |-> 0, id |-> 0, origin |-> "-", outcome |-> "-",
            tool |-> "-", to |-> 0, promoted |-> 0]

Ev(op, req, id, origin, outcome) ==
  [NoEvent EXCEPT !.op = op, !.req = req, !.id = id, !.origin = origin,
                  !.outcome = outcome]

\* variant: the lookup result is not checked
ToolFoundUnchecked(reg, name) == TRUE

\* tools.get(toolName) is defined
ToolFound(reg, name) == reg[name] # NoTool

\* variant: the limit test written with > instead of >=
AtCapacityOffByOne(run, max) == Cardinality(run) > max

\* this.runningExecutions.size >= this.config.tools.maxConcurrent
AtCapacity(run, max) == Cardinality(run) >= max

\* variant: the comparator with its operands swapped (ascending order)
compareAscending(a, b) == a.prio - b.prio

\* the comparator handed to Array.prototype.sort: (a, b) => b.priority - a.priority
compare(a, b) == b.prio - a.prio

\* variant: an insertion that puts e in front of the entries it compares equal to
RECURSIVE InsertBeforeEquals(_, _)
InsertBeforeEquals(s, e) ==
  IF s = <<>> THEN <<e>>
  ELSE IF compare(Head(s), e) < 0
       THEN <<Head(s)>> \o InsertBeforeEquals(Tail(s), e)
       ELSE <<e>> \o s

\* one insertion of a stable sort: e goes behind every x with compare(x, e) <= 0
RECURSIVE InsertStable(_, _)
InsertStable(s, e) ==
  IF s = <<>> THEN <<e>>
  ELSE IF compare(Head(s), e) <= 0
       THEN <<Head(s)>> \o InsertStable(Tail(s), e)
       ELSE <<e>> \o s

\* Array.prototype.sort (stable since ES2019) with the comparator above
RECURSIVE SortQueue(_)
SortQueue(s) ==
  IF s = <<>> THEN <<>>
  ELSE InsertStable(SortQueue(SubSeq(s, 1, Len(s) - 1)), s[Len(s)])

\* ghost arrival ranks are kept in 1..Len(q), order preserved
Renumber(q) ==
  [i \in 1..Len(q) |->
     [q[i] EXCEPT !.arr = Cardinality({j \in 1..Len(q) : q[j].arr <= q[i].arr})]]

\* an identifier no running execution holds (avoid: ids released in this step)
generateExecutionId(run, avoid) == Min(ExecIds \ (run \cup avoid))

\* The synchronous part of executeTool for a registered tool: either the
\* request is pushed on the backlog and the backlog sorted, or an id is
\* generated and added to runningExecutions.
executeToolSync(run, q, max, avoid, r, pa, p) ==
  IF AtCapacity(run, max)
  THEN [running |-> run,
        queue |-> SortQueue(Append(q, [req |-> r, params |-> pa, prio |-> p,
                                       arr |-> Len(q) + 1])),
        admitted |-> FALSE, id |-> 0]
  ELSE LET id == generateExecutionId(run, avoid)
       IN [running |-> run \cup {id}, queue |-> q, admitted |-> TRUE, id |-> id]

\* variant: processQueue reads the head of the backlog without removing it
processQueueNoShift(run, q, max, avoid) ==
  IF Len(q) > 0 /\ Cardinality(run) < max
  THEN LET next == Head(q)
           r == executeToolSync(run, q, max, avoid, next.req, next.params, next.prio)
       IN [running |-> r.running, queue |-> r.queue, called |-> TRUE,
           admitted |-> r.admitted, id |-> r.id, req |-> next.req,
           params |-> next.params, prio |-> next.prio]
  ELSE [running |-> run, queue |-> q, called |-> FALSE,
        admitted |-> FALSE, id |-> 0, req |-> 0, params |-> "-", prio |-> 0]

\* processQueue: shift the head of the backlog and call executeTool for it
processQueue(run, q, max, avoid) ==
  IF Len(q) > 0 /\ Cardinality(run) < max
  THEN LET next == Head(q)
           r == executeToolSync(run, Renumber(Tail(q)), max, avoid,
                                next.req, next.params, next.prio)
       IN [running |-> r.running, queue |-> r.queue, called |-> TRUE,
           admitted |-> r.admitted, id |-> r.id, req |-> next.req,
           params |-> next.params, prio |-> next.prio]
  ELSE [running |-> run, queue |-> q, called |-> FALSE,
        admitted |-> FALSE, id |-> 0, req |-> 0, params |-> "-", prio |-> 0]

\* variant: the finally block without the delete
releaseWithoutDelete(run, q, max, id) == processQueue(run, q, max, {id})

\* the finally block: runningExecutions.delete(executionId); processQueue()
releaseAndDrain(run, q, max, id) == processQueue(run \ {id}, q, max, {id})

Bump(n) == IF n < CountCap THEN n + 1 ELSE n

NoResult == [success |-> FALSE, message |-> "-", errors |-> "-",
             executionTime |-> 0, measured |-> 0]

\* the try path: the ToolResult of tool.execute with executionTime overwritten
\* by Date.now() - startTime (errors is optional and the tool's business);
\* measured is a ghost copy of the time the race took
toolResult(outcome, errs, t) ==
  [success |-> outcome = "success", message |-> "tool", errors |-> errs,
   executionTime |-> t, measured |-> t]

\* variant: the catch block builds its result without the errors list
catchResultNoErrors(msg, t) ==
  [success |-> FALSE, message |-> msg, errors |-> "none",
   executionTime |-> 0, measured |-> t]

\* the catch block: success false, the error's message, executionTime 0 and
\* a one-element errors list
catchResult(msg, t) ==
  [success |-> FALSE, message |-> msg, errors |-> "list",
   executionTime |-> 0, measured |-> t]

\* variant: the timer callback may run before timeoutMs has passed
TimerDueAnyTime(clk, i) == TRUE

\* setTimeout(..., timeoutMs): the callback runs once timeoutMs has passed
TimerDue(clk, i) == clk[i] = TimeoutTicks

\* ---------------------------------------------------------------- configuration
\* process.env as ConfigManager.initialize reads it: one variable of each
\* kind (an enum, a number, a boolean); "unset" stands for undefined
LogLevelValues == {"unset", "", "debug", "verbose"}
MaxConcurrentValues == {"unset", "3", "3px", "abc"}
AuditLoggingValues == {"unset", "true", "false"}

LogLevels == {"debug", "info", "warn", "error"}
DefaultMaxConcurrent == 5

NoConfig == [level |-> "-", maxConcurrent |-> 0, auditLogging |-> FALSE]
ObjectIds == 1..MaxObjects

\* the defaults ConfigSchema declares
SchemaDefaults ==
  [level |-> "info", maxConcurrent |-> DefaultMaxConcurrent, auditLogging |-> TRUE]

\* process.env.X || d: undefined and the empty string are falsy
orDefault(v, d) == IF v \in {"unset", ""} THEN d ELSE v

\* parseInt on the strings considered: leading digits, NaN without any
parseInt(str) ==
  CASE str = "3" -> [nan |-> FALSE, n |-> 3]
    [] str = "3px" -> [nan |-> FALSE, n |-> 3]
    [] str = "5" -> [nan |-> FALSE, n |-> DefaultMaxConcurrent]
    [] OTHER -> [nan |-> TRUE, n |-> 0]

\* the rawConfig object literal of initialize()
rawConfig(e) ==
  [level |-> orDefault(e.LOG_LEVEL, "info"),
   maxConcurrent |-> parseInt(orDefault(e.MAX_CONCURRENT_TOOLS, "5")),
   auditLogging |-> e.AUDIT_LOGGING = "true"]

\* ConfigSchema.parse accepts: the enum holds the level, the number is no NaN
parseAccepts(raw) == raw.level \in LogLevels /\ ~raw.maxConcurrent.nan

\* ConfigSchema.parse(raw) when it accepts; no field of raw is undefined, so
\* no .default() of the schema applies
parse(raw) ==
  [level |-> raw.level, maxConcurrent |-> raw.maxConcurrent.n,
   auditLogging |-> raw.auditLogging]

\* variant: every call constructs a ConfigManager
getInstanceAlwaysNew(inst, n) == [instance |-> n + 1, created |-> n + 1]

\* ConfigManager.getInstance
getInstance(inst, n) ==
  IF inst = 0
  THEN [instance |-> n + 1, created |-> n + 1]
  ELSE [instance |-> inst, created |-> n]

\* variant: getConfig returns the field as it is
getConfigUnchecked(c) == [threw |-> FALSE, value |-> c]

\* ConfigManager.getConfig on an object whose config field is c
getConfig(c) ==
  IF c = NoConfig
  THEN [threw |-> TRUE, value |-> NoConfig]
  ELSE [threw |-> FALSE, value |-> c]

\* ---------------------------------------------------------------- security rules
RiskLevels == {"low", "medium", "high", "critical"}

\* the rules SecurityValidator.initialize registers, in its order (three of
\* the five)
RuleNames == <<"input-sanitization", "injection-attack", "compliance">>

RuleNameSet == {RuleNames[i] : i \in 1..Len(RuleNames)}

\* what rule.validate can do with an input: throw, or return a result
Threw == [threw |-> TRUE, isValid |-> FALSE, riskLevel |-> "low"]
RuleResults ==
  {Threw} \cup [threw : {FALSE}, isValid : BOOLEAN, riskLevel : RiskLevels]

getRiskLevelOrder(level) ==
  CASE level = "low" -> 1
    [] level = "medium" -> 2
    [] level = "high" -> 3
    [] level = "critical" -> 4

\* variant: the level of the rule evaluated last is kept
higherRiskLatest(level, highest) == level

\* lines 68-70: the level tracked after a rule accepted with this level
higherRisk(level, highest) ==
  IF getRiskLevelOrder(level) > getRiskLevelOrder(highest) THEN level ELSE highest

NoVerdict == [isValid |-> FALSE, riskLevel |-> "low", rule |-> 0, evaluated |-> 0,
              error |-> FALSE]

\* the loop of validateInput from rule i on; rule and evaluated are ghosts:
\* the position of the rule that decided and the number of rules evaluated
RECURSIVE validateFrom(_, _, _, _)
validateFrom(rs, did, i, highest) ==
  IF i > Len(rs)
  THEN [isValid |-> TRUE, riskLevel |-> highest, rule |-> 0,
        evaluated |-> Len(rs), error |-> FALSE]
  ELSE LET r == did[rs[i]]
       IN IF r.threw
          THEN [isValid |-> FALSE, riskLevel |-> "critical", rule |-> i,
                evaluated |-> i, error |-> TRUE]
          ELSE IF ~r.isValid
               THEN [isValid |-> FALSE, riskLevel |-> r.riskLevel, rule |-> i,
                     evaluated |-> i, error |-> FALSE]
               ELSE validateFrom(rs, did, i + 1, higherRisk(r.riskLevel, highest))

validateInput(rs, did) == validateFrom(rs, did, 1, "low")

\* ---------------------------------------------------------------- the agent
Activations == 1..MaxActivations

\* the components in the order AutonomousAgent.initialize awaits them
AgentComponents == <<"protocolManager", "securityValidator", "toolOrchestrator",
                     "learningEngine", "chatInterface">>

IdleActivation == [at |-> "idle", k |-> 0]

NoResponse == [threw |-> FALSE, success |-> FALSE, validated |-> FALSE,
               selected |-> FALSE, executed |-> FALSE, learned |-> FALSE]

\* selectProtocol and protocol.execute: either throws, or execute returns a
\* response that reports success or not; learningEngine.learn returns or throws
ProtocolOutcomes == {"select-threw", "execute-threw", "success", "failure"}
LearnOutcomes == {"ok", "threw"}

\* variant: the isInitialized test is missing
processMessageUngated(init, verdict, proto, learn) ==
  IF ~verdict.isValid
  THEN [NoResponse EXCEPT !.validated = TRUE]
  ELSE [NoResponse EXCEPT !.validated = TRUE,
          !.selected = proto # "select-threw",
          !.executed = proto \in {"success", "failure"},
          !.learned = proto \in {"success", "failure"} /\ learn = "ok",
          !.success = proto = "success" /\ learn = "ok"]

\* AutonomousAgent.processMessage: what the call gives (threw, or a response
\* with this success flag) and, as ghosts, how far it got
processMessage(init, verdict, proto, learn) ==
  IF ~init
  THEN [NoResponse EXCEPT !.threw = TRUE]
  ELSE IF ~verdict.isValid
       THEN [NoResponse EXCEPT !.validated = TRUE]
       ELSE [NoResponse EXCEPT !.validated = TRUE,
               !.selected = proto # "select-threw",
               !.executed = proto \in {"success", "failure"},
               !.learned = proto \in {"success", "failure"} /\ learn = "ok",
               !.success = proto = "success" /\ learn = "ok"]

ComponentsInit ==
  /\ env = [LOG_LEVEL |-> "unset", MAX_CONCURRENT_TOOLS |-> "unset",
            AUDIT_LOGGING |-> "unset"]
  /\ instance = 0
  /\ created = 0
  /\ config = [o \in ObjectIds |-> NoConfig]
  /\ handed = {}
  /\ initialized = {}
  /\ observed = [ref |-> 0, threw |-> FALSE, value |-> NoConfig]
  /\ rules = <<>>
  /\ validation = [did |-> [n \in RuleNameSet |-> Threw], result |-> NoVerdict]
  /\ isInitialized = FALSE
  /\ pc = [a \in Activations |-> IdleActivation]
  /\ installs = [k \in 1..Len(AgentComponents) |-> 0]
  /\ response = NoResponse

\* ---------------------------------------------------------------- Init
Init ==
  /\ tools = [n \in ToolNames |-> NoTool]
  /\ maxConcurrent \in 0..MaxConcurrentLimit
  /\ executionQueue = <<>>
  /\ runningExecutions = {}
  /\ execs = {}
  /\ calls = [c \in CallIds |-> IdleCall]
  /\ executeCount = [c \in CallIds |-> 0]
  /\ event = NoEvent
  /\ clock = [i \in ExecIds |-> 0]
  /\ background = [executes |-> 0, timers |-> 0]
  /\ result = NoResult
  /\ cancelled = [c \in CallIds |-> "no"]
  /\ now = 0
  /\ ComponentsInit

\* ---------------------------------------------------------------- actions
\* ToolOrchestrator.initialize: registers the built-in tools
Initialize ==
  /\ tools' = [tools EXCEPT !["code-analysis"] = "builtin"]
  /\ event' = Ev("initialize", 0, 0, "-", "-")
  /\ UNCHANGED <<maxConcurrent, executionQueue, runningExecutions, execs, calls, executeCount>>

\* An external caller invokes executeTool(toolName, parameters, context, priority)
ExecuteTool(c, name, params, prio) ==
  /\ calls[c].status = "idle"
  /\ IF c = 1 THEN TRUE ELSE calls[c - 1].status # "idle"
  /\ IF ~ToolFound(tools, name)
     THEN /\ calls' = [calls EXCEPT ![c] = [status |-> "rejected", prio |-> 0,
                                            params |-> "-"]]
          /\ event' = [Ev("call", c, 0, "direct", "ToolNotFound") EXCEPT !.tool = name]
          /\ UNCHANGED <<executionQueue, runningExecutions, execs>>
     ELSE LET r == executeToolSync(runningExecutions, executionQueue, maxConcurrent, {},
                                   c, params, prio)
          IN /\ r.admitted \/ Len(executionQueue) < MaxQueue
             /\ runningExecutions' = r.running
             /\ executionQueue' = r.queue
             /\ execs' = IF r.admitted
                         THEN execs \cup {[id |-> r.id, req |-> c, origin |-> "direct",
                                           params |-> params, prio |-> prio,
                                           phase |-> "validating"]}
                         ELSE execs
             /\ calls' = [calls EXCEPT ![c] =
                            IF r.admitted
                            THEN [status |-> "executing", prio |-> 0, params |-> "-"]
                            ELSE [status |-> "polling", prio |-> prio, params |-> params]]
             /\ event' = [Ev("call", c, r.id, "direct",
                               IF r.admitted THEN "admitted" ELSE "queued")
                           EXCEPT !.tool = name]
  /\ UNCHANGED <<tools, maxConcurrent, executeCount>>

\* The 1000 ms timer of a backlogged call fires: executeTool is called again
\* with the same arguments and its result resolves the caller's promise.
Poll(c) ==
  /\ calls[c].status = "polling"
  /\ LET r == executeToolSync(runningExecutions, executionQueue, maxConcurrent, {},
                              c, calls[c].params, calls[c].prio)
     IN /\ r.admitted \/ Len(executionQueue) < MaxQueue
        /\ runningExecutions' = r.running
        /\ executionQueue' = r.queue
        /\ execs' = IF r.admitted
                    THEN execs \cup {[id |-> r.id, req |-> c, origin |-> "poll",
                                      params |-> calls[c].params,
                                      prio |-> calls[c].prio, phase |-> "validating"]}
                    ELSE execs
        /\ calls' = IF r.admitted
                    THEN [calls EXCEPT ![c] = [status |-> "executing", prio |-> 0,
                                               params |-> "-"]]
                    ELSE calls
        /\ event' = Ev("poll", c, r.id, "poll",
                       IF r.admitted THEN "admitted" ELSE "queued")
  /\ UNCHANGED <<tools, maxConcurrent, executeCount>>

\* catch/return, then the finally block, then the result goes to whoever
\* awaits this activation: the caller (direct, or through the poll chain),
\* or nobody for an activation started by processQueue (void).
Finish(e, outcome) ==
  LET d == releaseAndDrain(runningExecutions, executionQueue, maxConcurrent, e.id)
  IN /\ runningExecutions' = d.running
     /\ executionQueue' = d.queue
     /\ execs' = (execs \ {e}) \cup
                 (IF d.admitted
                  THEN {[id |-> d.id, req |-> d.req, origin |-> "drain",
                         params |-> d.params, prio |-> d.prio,
                         phase |-> "validating"]}
                  ELSE {})
     /\ calls' = IF e.origin \in {"direct", "poll"}
                 THEN [calls EXCEPT ![e.req].status = "returned"]
                 ELSE calls
     /\ event' = [Ev("release", e.req, e.id, e.origin, outcome)
                   EXCEPT !.to = IF e.origin \in {"direct", "poll"} THEN e.req ELSE 0,
                          !.promoted = IF d.admitted THEN d.req ELSE 0]

\* await tool.validate(parameters) settles
ValidateDone(e) ==
  /\ e \in execs
  /\ e.phase = "validating"
  /\ IF e.params = "valid"
     THEN /\ execs' = (execs \ {e}) \cup {[e EXCEPT !.phase = "racing"]}
          /\ executeCount' = [executeCount EXCEPT ![e.req] = Bump(@)]
          /\ event' = Ev("execute", e.req, e.id, e.origin, "-")
          /\ UNCHANGED <<executionQueue, runningExecutions, calls>>
     ELSE /\ Finish(e, "InvalidParameters")
          /\ UNCHANGED executeCount
  /\ UNCHANGED <<tools, maxConcurrent>>

\* tool.execute(parameters) settles first and decides the race
ExecuteDone(e, outcome) ==
  /\ e \in execs
  /\ e.phase = "racing"
  /\ Finish(e, outcome)
  /\ UNCHANGED <<tools, maxConcurrent, executeCount>>

\* the timer of createTimeoutPromise fires first and rejects the race
TimeoutFire(e) ==
  /\ e \in execs
  /\ e.phase = "racing"
  /\ Finish(e, "Timeout")
  /\ UNCHANGED <<tools, maxConcurrent, executeCount>>

Next ==
  \/ Initialize /\ UNCHANGED extras
  \/ \E c \in CallIds, n \in ToolNames, pa \in ParamKinds, p \in Priorities :
       ExecuteTool(c, n, pa, p) /\ UNCHANGED extras
  \/ \E c \in CallIds : Poll(c) /\ UNCHANGED extras
  \/ \E e \in execs : ValidateDone(e) /\ UNCHANGED extras
  \/ \E e \in execs, o \in ExecuteOutcomes : ExecuteDone(e, o) /\ UNCHANGED extras
  \/ \E e \in execs : TimeoutFire(e) /\ UNCHANGED extras

Spec == Init /\ [][Next]_vars

\* ---------------------------------------------------------------- fairness
\* The runs checked for progress: one slot (tools.maxConcurrent = 1) and the
\* first two callers; every step is a step of Next.
LiveCalls == 1..(MaxCalls - 1)

LiveInit == Init /\ maxConcurrent = 1

LiveNext ==
  \/ Initialize /\ UNCHANGED extras
  \/ \E c \in LiveCalls, n \in ToolNames, pa \in ParamKinds, p \in Priorities :
       ExecuteTool(c, n, pa, p) /\ UNCHANGED extras
  \/ \E c \in LiveCalls : Poll(c) /\ UNCHANGED extras
  \/ \E e \in execs : ValidateDone(e) /\ UNCHANGED extras
  \/ \E e \in execs, o \in ExecuteOutcomes : ExecuteDone(e, o) /\ UNCHANGED extras
  \/ \E e \in execs : TimeoutFire(e) /\ UNCHANGED extras

\* What the event loop guarantees: a timer that was set fires. The activation
\* holding a slot moves on when its validate promise settles or its timeout
\* timer fires.
TimerFires == \E e \in execs : TimeoutFire(e)

Settles == \E e \in execs : ValidateDone(e) \/ TimeoutFire(e)

\* Timers fire (the polling timer whenever the backlog cap lets the model take
\* the step); nothing is assumed about the promises of the tools themselves.
TimerSpec ==
  /\ LiveInit /\ [][LiveNext]_vars
  /\ WF_vars(TimerFires /\ UNCHANGED extras)
  /\ \A c \in LiveCalls : SF_vars(Poll(c) /\ UNCHANGED extras)

\* Timers fire and every validate promise settles, so that every admitted
\* execution finishes or times out.
LiveSpec ==
  /\ LiveInit /\ [][LiveNext]_vars
  /\ WF_vars(Settles /\ UNCHANGED extras)
  /\ \A c \in LiveCalls : SF_vars(Poll(c) /\ UNCHANGED extras)

\* ---------------------------------------------------------------- scenario
\* Section 8, first scenario: the tools are registered, tools.maxConcurrent
\* is 2, and three calls with priorities 1, 5 and 3 are made in one
\* synchronous burst; nothing else runs until the burst is over.
ScenarioPriorities == <<1, 5, 3>>

ScenarioCalls == 1..Len(ScenarioPriorities)

ScenarioInit ==
  /\ tools = [n \in ToolNames |-> IF n = "code-analysis" THEN "builtin" ELSE NoTool]
  /\ maxConcurrent = Len(ScenarioPriorities) - 1
  /\ executionQueue = <<>>
  /\ runningExecutions = {}
  /\ execs = {}
  /\ calls = [c \in CallIds |-> IdleCall]
  /\ executeCount = [c \in CallIds |-> 0]
  /\ event = NoEvent
  /\ clock = [i \in ExecIds |-> 0]
  /\ background = [executes |-> 0, timers |-> 0]
  /\ result = NoResult
  /\ cancelled = [c \in CallIds |-> "no"]
  /\ now = 0
  /\ ComponentsInit

BurstDone == \A c \in ScenarioCalls : calls[c].status # "idle"

ScenarioNext ==
  \/ \E c \in ScenarioCalls :
       ExecuteTool(c, "code-analysis", "valid", ScenarioPriorities[c]) /\ UNCHANGED extras
  \/ BurstDone /\ \E c \in ScenarioCalls : Poll(c) /\ UNCHANGED extras
  \/ BurstDone /\ \E e \in execs : ValidateDone(e) /\ UNCHANGED extras
  \/ BurstDone /\ \E e \in execs, o \in ExecuteOutcomes :
                     ExecuteDone(e, o) /\ UNCHANGED extras
  \/ BurstDone /\ \E e \in execs : TimeoutFire(e) /\ UNCHANGED extras

ScenarioSpec == ScenarioInit /\ [][ScenarioNext]_vars

\* ---------------------------------------------------------------- the race
\* The timeout race with its clock, its results and what it leaves behind.
\* The tools are registered; the first callers of LiveCalls make the calls.
RaceInit ==
  /\ tools = [n \in ToolNames |-> IF n = "code-analysis" THEN "builtin" ELSE NoTool]
  /\ maxConcurrent \in 1..MaxConcurrentLimit
  /\ executionQueue = <<>>
  /\ runningExecutions = {}
  /\ execs = {}
  /\ calls = [c \in CallIds |-> IdleCall]
  /\ executeCount = [c \in CallIds |-> 0]
  /\ event = NoEvent
  /\ clock = [i \in ExecIds |-> 0]
  /\ background = [executes |-> 0, timers |-> 0]
  /\ result = NoResult
  /\ cancelled = [c \in CallIds |-> "no"]
  /\ now = 0
  /\ ComponentsInit

Racing(i) == \E e \in execs : e.id = i /\ e.phase = "racing"

\* a millisecond passes; a due timer is not overtaken by the clock
Tick ==
  /\ \E i \in ExecIds : Racing(i)
  /\ \A i \in ExecIds : Racing(i) => clock[i] < TimeoutTicks
  /\ clock' = [i \in ExecIds |-> IF Racing(i) THEN clock[i] + 1 ELSE clock[i]]
  /\ event' = Ev("tick", 0, 0, "-", "-")
  /\ UNCHANGED <<tools, maxConcurrent, executionQueue, runningExecutions, execs,
                 calls, executeCount, background>>
  /\ result' = NoResult

\* validate settles: startTime is taken and the race starts, or the catch
\* block answers for the rejected parameters
RaceValidateDone(e) ==
  /\ ValidateDone(e)
  /\ clock' = [clock EXCEPT ![e.id] = 0]
  /\ result' = IF e.params = "valid" THEN NoResult ELSE catchResult("invalid", 0)
  /\ UNCHANGED background

\* execute settles first; the timeout timer stays pending
RaceExecuteDone(e, outcome, errs) ==
  /\ background.timers < MaxBackground
  /\ ExecuteDone(e, outcome)
  /\ result' = IF outcome = "thrown"
               THEN catchResult("thrown", clock[e.id])
               ELSE toolResult(outcome, errs, clock[e.id])
  /\ clock' = [clock EXCEPT ![e.id] = 0]
  /\ background' = [background EXCEPT !.timers = @ + 1]

\* the timer fires first; the execute function goes on running
RaceTimeoutFire(e) ==
  /\ background.executes < MaxBackground
  /\ e \in execs
  /\ TimerDue(clock, e.id)
  /\ TimeoutFire(e)
  /\ result' = catchResult("timeout", clock[e.id])
  /\ clock' = [clock EXCEPT ![e.id] = 0]
  /\ background' = [background EXCEPT !.executes = @ + 1]

\* variant: the late settling runs the release once more
LateExecuteDoneReleases ==
  /\ background.executes > 0
  /\ background' = [background EXCEPT !.executes = @ - 1]
  /\ event' = Ev("late-execute", 0, 0, "-", "-")
  /\ runningExecutions' = {}
  /\ UNCHANGED <<tools, maxConcurrent, executionQueue, execs,
                 calls, executeCount, clock>>
  /\ result' = NoResult

\* an abandoned execute function settles: the race has been decided, its
\* promise has no reader left
LateExecuteDone ==
  /\ background.executes > 0
  /\ background' = [background EXCEPT !.executes = @ - 1]
  /\ event' = Ev("late-execute", 0, 0, "-", "-")
  /\ UNCHANGED <<tools, maxConcurrent, executionQueue, runningExecutions, execs,
                 calls, executeCount, clock>>
  /\ result' = NoResult

\* the timer of a race that execute decided fires: the rejection is dropped
StaleTimerFire ==
  /\ background.timers > 0
  /\ background' = [background EXCEPT !.timers = @ - 1]
  /\ event' = Ev("stale-timer", 0, 0, "-", "-")
  /\ UNCHANGED <<tools, maxConcurrent, executionQueue, runningExecutions, execs,
                 calls, executeCount, clock>>
  /\ result' = NoResult

\* a step that returns nothing to a caller and leaves the races alone
NoReturn ==
  /\ result' = NoResult
  /\ UNCHANGED <<clock, background, cancelled, now, components>>

RaceNext ==
  \/ \E c \in LiveCalls, n \in ToolNames, pa \in ParamKinds, p \in Priorities :
       ExecuteTool(c, n, pa, p) /\ NoReturn
  \/ \E c \in LiveCalls : Poll(c) /\ NoReturn
  \/ Tick /\ UNCHANGED <<cancelled, now, components>>
  \/ \E e \in execs : RaceValidateDone(e) /\ UNCHANGED <<cancelled, now, components>>
  \/ \E e \in execs, o \in ExecuteOutcomes, x \in {"list", "none"} :
       RaceExecuteDone(e, o, x) /\ UNCHANGED <<cancelled, now, components>>
  \/ \E e \in execs : RaceTimeoutFire(e) /\ UNCHANGED <<cancelled, now, components>>
  \/ LateExecuteDone /\ UNCHANGED <<cancelled, now, components>>
  \/ StaleTimerFire /\ UNCHANGED <<cancelled, now, components>>

RaceSpec == RaceInit /\ [][RaceNext]_vars

\* ---------------------------------------------------------------- cancellation
\* executeTool(toolName, parameters, context, priority) takes no cancellation
\* signal and no method of the orchestrator withdraws a request: a caller that
\* gives up on its call only stops waiting. Nothing of the orchestrator's
\* state changes.
Cancel(c) ==
  /\ calls[c].status \in {"polling", "executing"}
  /\ cancelled[c] = "no"
  /\ cancelled' = [cancelled EXCEPT ![c] =
                     IF calls[c].status = "polling" THEN "backlogged" ELSE "in-flight"]
  /\ event' = Ev("cancel", c, 0, "-", "-")
  /\ UNCHANGED <<tools, maxConcurrent, executionQueue, runningExecutions, execs,
                 calls, executeCount, clock, background, result, now, components>>

CancelNext ==
  \/ \E c \in LiveCalls, n \in ToolNames, pa \in ParamKinds, p \in Priorities :
       ExecuteTool(c, n, pa, p) /\ UNCHANGED extras
  \/ \E c \in LiveCalls : Poll(c) /\ UNCHANGED extras
  \/ \E e \in execs : ValidateDone(e) /\ UNCHANGED extras
  \/ \E e \in execs, o \in ExecuteOutcomes : ExecuteDone(e, o) /\ UNCHANGED extras
  \/ \E e \in execs : TimeoutFire(e) /\ UNCHANGED extras
  \/ \E c \in LiveCalls : Cancel(c)

CancelSpec == RaceInit /\ [][CancelNext]_vars

\* ---------------------------------------------------------------- the registry
ToolImpls == {"builtin", "custom"}

\* variant: a name that is taken keeps its tool
registerToolIfAbsent(reg, name, impl) ==
  IF reg[name] = NoTool THEN [reg EXCEPT ![name] = impl] ELSE reg

\* this.tools.set(tool.name, tool)
registerTool(reg, name, impl) == [reg EXCEPT ![name] = impl]

\* Array.from(this.tools.values()), as the set of its elements
getAvailableTools(reg) == {reg[n] : n \in {m \in ToolNames : reg[m] # NoTool}}

\* registerTool(tool) for a tool of the given name; the event's outcome field
\* carries the tool that was registered
RegisterTool(name, impl) ==
  /\ tools' = registerTool(tools, name, impl)
  /\ event' = [Ev("register", 0, 0, "-", impl) EXCEPT !.tool = name]
  /\ UNCHANGED <<maxConcurrent, executionQueue, runningExecutions, execs, calls,
                 executeCount>>

\* registrations in between the calls of two callers, on one slot
RegistryInit == RaceInit /\ maxConcurrent = 1

RegistryNext ==
  \/ \E n \in ToolNames, i \in ToolImpls : RegisterTool(n, i) /\ UNCHANGED extras
  \/ \E c \in LiveCalls, n \in ToolNames, pa \in ParamKinds, p \in Priorities :
       ExecuteTool(c, n, pa, p) /\ UNCHANGED extras
  \/ \E c \in LiveCalls : Poll(c) /\ UNCHANGED extras
  \/ \E e \in execs : ValidateDone(e) /\ UNCHANGED extras
  \/ \E e \in execs, o \in ExecuteOutcomes : ExecuteDone(e, o) /\ UNCHANGED extras
  \/ \E e \in execs : TimeoutFire(e) /\ UNCHANGED extras

RegistrySpec == RegistryInit /\ [][RegistryNext]_vars

\* ---------------------------------------------------------------- identifiers
\* generateExecutionId as written: `exec_${Date.now()}_${suffix}` with the
\* suffix cut from Math.random().toString(36). The string is determined by
\* the millisecond and the suffix, and differs when either differs.
executionIdAt(ms, rnd) == ms * RandomValues + rnd + 1

\* As many slots as calls, so that no call is backlogged and every id comes
\* from the admission of a direct call.
CollisionInit ==
  /\ tools = [n \in ToolNames |-> IF n = "code-analysis" THEN "builtin" ELSE NoTool]
  /\ maxConcurrent = MaxCalls
  /\ executionQueue = <<>>
  /\ runningExecutions = {}
  /\ execs = {}
  /\ calls = [c \in CallIds |-> IdleCall]
  /\ executeCount = [c \in CallIds |-> 0]
  /\ event = NoEvent
  /\ clock = [i \in ExecIds |-> 0]
  /\ background = [executes |-> 0, timers |-> 0]
  /\ result = NoResult
  /\ cancelled = [c \in CallIds |-> "no"]
  /\ now = 0
  /\ ComponentsInit

\* executeTool for a registered tool with the id drawn as the code draws it:
\* the current millisecond and whatever Math.random() gives
CollidingExecuteTool(c, params, prio, rnd) ==
  /\ calls[c].status = "idle"
  /\ IF c = 1 THEN TRUE ELSE calls[c - 1].status # "idle"
  /\ IF AtCapacity(runningExecutions, maxConcurrent)
     THEN LET r == executeToolSync(runningExecutions, executionQueue, maxConcurrent,
                                   {}, c, params, prio)
          IN /\ Len(executionQueue) < MaxQueue
             /\ executionQueue' = r.queue
             /\ calls' = [calls EXCEPT ![c] = [status |-> "polling", prio |-> prio,
                                                params |-> params]]
             /\ event' = [Ev("call", c, 0, "direct", "queued")
                            EXCEPT !.tool = "code-analysis"]
             /\ UNCHANGED <<runningExecutions, execs>>
     ELSE LET id == executionIdAt(now, rnd)
          IN /\ runningExecutions' = runningExecutions \cup {id}
             /\ execs' = execs \cup {[id |-> id, req |-> c, origin |-> "direct",
                                      params |-> params, prio |-> prio,
                                      phase |-> "validating"]}
             /\ calls' = [calls EXCEPT ![c] = [status |-> "executing", prio |-> 0,
                                                params |-> "-"]]
             /\ event' = [Ev("call", c, id, "direct", "admitted")
                            EXCEPT !.tool = "code-analysis"]
             /\ UNCHANGED executionQueue
  /\ UNCHANGED <<tools, maxConcurrent, executeCount, clock, background, result,
                 cancelled, now, components>>

\* a millisecond passes
MsPasses ==
  /\ now < MaxNow
  /\ now' = now + 1
  /\ event' = Ev("ms", 0, 0, "-", "-")
  /\ UNCHANGED <<tools, maxConcurrent, executionQueue, runningExecutions, execs,
                 calls, executeCount, clock, background, result, cancelled,
                 components>>

CollisionNext ==
  \/ \E c \in CallIds, pa \in ParamKinds, p \in Priorities, x \in 0..(RandomValues - 1) :
       CollidingExecuteTool(c, pa, p, x)
  \/ MsPasses
  \/ \E e \in execs : ValidateDone(e) /\ UNCHANGED extras
  \/ \E e \in execs, o \in ExecuteOutcomes : ExecuteDone(e, o) /\ UNCHANGED extras
  \/ \E e \in execs : TimeoutFire(e) /\ UNCHANGED extras

CollisionSpec == CollisionInit /\ [][CollisionNext]_vars

\* ---------------------------------------------------------------- configuration steps
\* the program or its environment sets or deletes a variable
SetEnv ==
  /\ \/ \E l \in LogLevelValues : env' = [env EXCEPT !.LOG_LEVEL = l]
     \/ \E m \in MaxConcurrentValues : env' = [env EXCEPT !.MAX_CONCURRENT_TOOLS = m]
     \/ \E a \in AuditLoggingValues : env' = [env EXCEPT !.AUDIT_LOGGING = a]
  /\ env' # env
  /\ event' = Ev("setenv", 0, 0, "-", "-")
  /\ UNCHANGED <<instance, created, config, handed, initialized, observed>>

GetInstance ==
  LET r == getInstance(instance, created)
  IN /\ instance' = r.instance
     /\ created' = r.created
     /\ handed' = handed \cup {r.instance}
     /\ event' = Ev("getInstance", 0, r.instance, "-", "-")
     /\ UNCHANGED <<env, config, initialized, observed>>

\* initialize() on the object o: config is assigned only if parse returns
ConfigInitialize(o) ==
  /\ o \in handed
  /\ LET raw == rawConfig(env)
     IN IF parseAccepts(raw)
        THEN /\ config' = [config EXCEPT ![o] = parse(raw)]
             /\ initialized' = initialized \cup {o}
             /\ event' = Ev("configure", 0, o, "-", "ok")
        ELSE /\ event' = Ev("configure", 0, o, "-", "threw")
             /\ UNCHANGED <<config, initialized>>
  /\ UNCHANGED <<env, instance, created, handed, observed>>

\* getConfig() or one of the section getters on the object o
GetConfig(o) ==
  /\ o \in handed
  /\ observed' = [ref |-> o, threw |-> getConfig(config[o]).threw,
                  value |-> getConfig(config[o]).value]
  /\ event' = Ev("getConfig", 0, o, "-", "-")
  /\ UNCHANGED <<env, instance, created, config, handed, initialized>>

ConfigNext ==
  \/ SetEnv /\ UNCHANGED <<orchestrator, security, agent>>
  \/ GetInstance /\ UNCHANGED <<orchestrator, security, agent>>
  \/ \E o \in ObjectIds : ConfigInitialize(o) /\ UNCHANGED <<orchestrator, security, agent>>
  \/ \E o \in ObjectIds : GetConfig(o) /\ UNCHANGED <<orchestrator, security, agent>>

ConfigSpec == Init /\ [][ConfigNext]_vars

\* ---------------------------------------------------------------- security steps
\* SecurityValidator.initialize: the rules are pushed onto this.rules
SecurityInitialize ==
  /\ Len(rules) < CountCap * Len(RuleNames)
  /\ rules' = rules \o RuleNames
  /\ event' = Ev("secure", 0, 0, "-", "-")
  /\ UNCHANGED validation

\* validateInput(input, context) for an input with which the rules do this
ValidateInput(did) ==
  /\ validation' = [did |-> did, result |-> validateInput(rules, did)]
  /\ event' = Ev("validate", 0, 0, "-", "-")
  /\ UNCHANGED rules

ValidatorNext ==
  \/ SecurityInitialize /\ UNCHANGED <<orchestrator, configuration, agent>>
  \/ \E did \in [RuleNameSet -> RuleResults] :
       ValidateInput(did) /\ UNCHANGED <<orchestrator, configuration, agent>>

\* the validator on its own; the orchestrator's limit is of no account
ValidatorInit == Init /\ maxConcurrent = 1

ValidatorSpec == ValidatorInit /\ [][ValidatorNext]_vars

\* ---------------------------------------------------------------- agent steps
\* the components whose initialize() awaits something that can fail
Fallible == {"protocolManager", "learningEngine", "chatInterface"}

\* inputs for processMessage: every rule accepts, rejects, or throws
SampleInputs ==
  {[n \in RuleNameSet |-> r] :
     r \in {Threw,
            [threw |-> FALSE, isValid |-> TRUE, riskLevel |-> "low"],
            [threw |-> FALSE, isValid |-> FALSE, riskLevel |-> "high"]}}

\* initialize() is called: it returns at once if isInitialized is set, else
\* it calls the first component's initialize() and awaits it
AgentInitialize(a) ==
  /\ pc[a].at = "idle"
  /\ IF a = 1 THEN TRUE ELSE pc[a - 1].at # "idle"
  /\ pc' = [pc EXCEPT ![a] = IF isInitialized
                             THEN [at |-> "skipped", k |-> 0]
                             ELSE [at |-> "awaiting", k |-> 1]]
  /\ event' = Ev("agent-initialize", a, 0, "-", "-")
  /\ UNCHANGED <<orchestrator, configuration, security, isInitialized, installs,
                 response>>

\* the initialize() of the component awaited by activation a settles: it has
\* done its work and the activation goes on to the next component, or sets
\* isInitialized after the last; or it has thrown and the activation rethrows
AgentInitStep(a, ok) ==
  /\ pc[a].at = "awaiting"
  /\ LET k == pc[a].k
         last == k = Len(AgentComponents)
     IN IF ok
        THEN /\ installs[k] < CountCap
             /\ installs' = [installs EXCEPT ![k] = @ + 1]
             /\ rules' = IF AgentComponents[k] = "securityValidator"
                         THEN rules \o RuleNames ELSE rules
             /\ tools' = IF AgentComponents[k] = "toolOrchestrator"
                         THEN registerTool(tools, "code-analysis", "builtin")
                         ELSE tools
             /\ pc' = [pc EXCEPT ![a] = IF last THEN [at |-> "done", k |-> 0]
                                        ELSE [at |-> "awaiting", k |-> k + 1]]
             /\ isInitialized' = (last \/ isInitialized)
             /\ event' = Ev("agent-step", a, k, "-", "ok")
        ELSE /\ AgentComponents[k] \in Fallible
             /\ pc' = [pc EXCEPT ![a] = [at |-> "failed", k |-> 0]]
             /\ event' = Ev("agent-step", a, k, "-", "threw")
             /\ UNCHANGED <<installs, rules, tools, isInitialized>>
  /\ UNCHANGED <<maxConcurrent, executionQueue, runningExecutions, execs, calls,
                 executeCount, clock, background, result, cancelled, now,
                 configuration, validation, response>>

\* processMessage(message, context) for a message with which the rules, the
\* protocol and the learning engine do as given
ProcessMessage(did, proto, learn) ==
  LET verdict == validateInput(rules, did)
  IN /\ response' = processMessage(isInitialized, verdict, proto, learn)
     /\ validation' = IF isInitialized
                      THEN [did |-> did, result |-> verdict] ELSE validation
     /\ event' = Ev("message", 0, 0, "-", "-")
     /\ UNCHANGED <<orchestrator, configuration, rules, isInitialized, pc, installs>>

AgentNext ==
  \/ \E a \in Activations : AgentInitialize(a)
  \/ \E a \in Activations, ok \in BOOLEAN : AgentInitStep(a, ok)
  \/ \E did \in SampleInputs, proto \in ProtocolOutcomes, learn \in LearnOutcomes :
       ProcessMessage(did, proto, learn)

AgentInit == Init /\ maxConcurrent = 1

AgentSpec == AgentInit /\ [][AgentNext]_vars

TypeOK ==
  /\ runningExecutions \subseteq ExecIds
  /\ Len(executionQueue) <= MaxQueue
  /\ \A e \in execs : e.id \in runningExecutions
  /\ clock \in [ExecIds -> 0..TimeoutTicks]
  /\ background.executes \in 0..MaxBackground
  /\ background.timers \in 0..MaxBackground
  /\ result.executionTime \in 0..TimeoutTicks
  /\ cancelled \in [CallIds -> {"no", "backlogged", "in-flight"}]
  /\ now \in 0..MaxNow

\* ================================================================ claims
InFlight == Cardinality(runningExecutions)

\* C1 - Bounded concurrency: in every reachable state the number of in-flight
\* executions (the size of runningExecutions, and with it the number of
\* activations holding a slot) is at most tools.maxConcurrent.
C1_BoundedConcurrency ==
  /\ InFlight <= maxConcurrent
  /\ Cardinality(execs) <= maxConcurrent

\* a submission or polling retry has just been refused admission because
\* every slot is taken
C1_Witness ==
  /\ maxConcurrent >= 1
  /\ InFlight = maxConcurrent
  /\ event.op \in {"call", "poll"}
  /\ event.outcome = "queued"

\* C2 - Priority ordering: the entry processQueue admits is the one of highest
\* priority in the backlog and, among those of that priority, the one that
\* arrived first; and no backlogged request is admitted (by the drain or by
\* its polling retry) while an entry of strictly higher priority is backlogged.
C2_PriorityOrder ==
  [][/\ (event'.op = "release" /\ event'.promoted # 0) =>
          /\ executionQueue # <<>>
          /\ Head(executionQueue).req = event'.promoted
          /\ \A i \in 2..Len(executionQueue) :
               \/ executionQueue[i].prio < Head(executionQueue).prio
               \/ /\ executionQueue[i].prio = Head(executionQueue).prio
                  /\ executionQueue[i].arr > Head(executionQueue).arr
          /\ \A i \in 1..Len(executionQueue') :
               executionQueue'[i].prio <= Head(executionQueue).prio
     /\ (event'.op = "poll" /\ event'.outcome = "admitted") =>
          \A i \in 1..Len(executionQueue) :
             executionQueue[i].prio <= calls[event'.req].prio
    ]_vars

\* the drain has just admitted a request while a request of strictly lower
\* priority that arrived earlier stays backlogged
C2_Witness ==
  /\ event.op = "release"
  /\ event.promoted # 0
  /\ \E f \in execs, i \in 1..Len(executionQueue) :
       /\ f.origin = "drain"
       /\ f.req = event.promoted
       /\ executionQueue[i].prio < f.prio
       /\ executionQueue[i].req < f.req

\* C3 - No capacity leak: the step that ends an admitted execution, whatever
\* its outcome, removes its id from runningExecutions (one slot fewer) and in
\* the same step admits the head of the backlog when the backlog is not empty.
C3_NoCapacityLeak ==
  [][event'.op = "release" =>
       /\ event'.id \in runningExecutions
       /\ event'.id \notin runningExecutions'
       /\ IF executionQueue = <<>>
          THEN /\ Cardinality(runningExecutions') = InFlight - 1
               /\ executionQueue' = <<>>
               /\ event'.promoted = 0
          ELSE /\ Cardinality(runningExecutions') = InFlight
               /\ Len(executionQueue') = Len(executionQueue) - 1
               /\ event'.promoted = Head(executionQueue).req
               /\ \E f \in execs' :
                    /\ f.origin = "drain"
                    /\ f.req = Head(executionQueue).req
                    /\ f.phase = "validating"
                    /\ f.id \notin runningExecutions
    ]_vars

\* an execution has just ended in an error outcome and the drain promoted a
\* backlog entry in the same step
C3_Witness ==
  /\ event.op = "release"
  /\ event.outcome \in {"thrown", "Timeout", "InvalidParameters"}
  /\ event.promoted # 0
  /\ InFlight = maxConcurrent

\* C4 - Fail-fast rejection: executeTool with a name that is not registered
\* fails with ToolNotFound and changes neither runningExecutions nor the
\* backlog, whatever the load.
C4_FailFastRejection ==
  [][(event'.op = "call" /\ tools[event'.tool] = NoTool) =>
       /\ event'.outcome = "ToolNotFound"
       /\ calls'[event'.req].status = "rejected"
       /\ UNCHANGED <<runningExecutions, executionQueue, execs>>
    ]_vars

\* an unregistered name has just been rejected while every slot is taken and
\* the backlog is not empty
C4_Witness ==
  /\ event.op = "call"
  /\ event.outcome = "ToolNotFound"
  /\ tools["code-analysis"] # NoTool
  /\ maxConcurrent >= 1
  /\ InFlight = maxConcurrent
  /\ executionQueue # <<>>

\* C5 - A request whose parameters the tool's validate rejects never enters
\* the backlog and never occupies a capacity slot.
C5_InvalidNeverScheduled ==
  /\ \A e \in execs : e.params # "invalid"
  /\ \A i \in 1..Len(executionQueue) : executionQueue[i].params # "invalid"

\* C6 - Every call for a registered tool that is suspended (admitted or
\* backlogged) eventually returns a result to its caller, given
\* maxConcurrent >= 1 and executions that finish or time out.
C6_EveryCallReturns ==
  \A c \in LiveCalls :
    (maxConcurrent >= 1 /\ calls[c].status \in {"polling", "executing"})
      ~> (calls[c].status = "returned")

\* C7 - Every in-flight execution eventually ends and frees its slot: an id
\* in runningExecutions is eventually removed from it.
C7_EverySlotFreed ==
  \A i \in ExecIds : (i \in runningExecutions) ~> (i \notin runningExecutions)

InBacklog(c) == \E i \in 1..Len(executionQueue) : executionQueue[i].req = c

HasExecution(c) == \E e \in execs : e.req = c

Terminal(c) == calls[c].status \in {"returned", "rejected"}

\* C8 - A request is in at most one of the states backlogged, in-flight and
\* terminal.
C8_OneStatePerRequest ==
  \A c \in CallIds :
    /\ ~(InBacklog(c) /\ HasExecution(c))
    /\ ~(Terminal(c) /\ InBacklog(c))
    /\ ~(Terminal(c) /\ HasExecution(c))

\* C9 - Each executeTool call causes at most one invocation of the tool's
\* execute function.
C9_AtMostOneExecute == \A c \in CallIds : executeCount[c] <= 1

\* C10 - The result of an execution started by the drain step is handed to the
\* caller of that request, and the result a backlogged caller receives is the
\* one of the execution the drain started for it.
C10_PromotedResultReachesCaller ==
  event.op = "release" =>
    /\ event.origin = "drain" => event.to = event.req
    /\ (event.to # 0 /\ event.origin # "direct") => event.origin = "drain"

\* C16 - Admission, release and drain are serialized: an admission tests the
\* capacity and takes a slot nobody holds in one step, every slot in
\* runningExecutions belongs to exactly one activation (no double admission,
\* no lost release), and a promoted backlog entry leaves the backlog in the
\* step that promotes it (no entry is promoted twice).
C16_Serialized ==
  [][/\ {e.id : e \in execs'} = runningExecutions'
     /\ Cardinality(execs') = Cardinality(runningExecutions')
     /\ (event'.op \in {"call", "poll"} /\ event'.outcome = "admitted") =>
          /\ InFlight < maxConcurrent
          /\ event'.id \notin runningExecutions
          /\ runningExecutions' = runningExecutions \cup {event'.id}
          /\ executionQueue' = executionQueue
     /\ (event'.op \in {"call", "poll"} /\ event'.outcome = "queued") =>
          /\ InFlight >= maxConcurrent
          /\ runningExecutions' = runningExecutions
          /\ Len(executionQueue') = Len(executionQueue) + 1
     /\ (event'.op = "release" /\ event'.promoted # 0) =>
          /\ executionQueue' = Renumber(Tail(executionQueue))
          /\ Cardinality(execs') = Cardinality(execs)
    ]_vars

\* two calls overlap: both hold a slot and await validate, a third is queued
C16_Witness ==
  /\ maxConcurrent = 2
  /\ InFlight = 2
  /\ \A e \in execs : e.phase = "validating" /\ e.origin = "direct"
  /\ executionQueue # <<>>

\* C17 - The backlog is sorted in every reachable state: by descending
\* priority and, among entries of equal priority, by ascending arrival.
C17_BacklogSorted ==
  \A i, j \in 1..Len(executionQueue) :
    i < j =>
      \/ executionQueue[i].prio > executionQueue[j].prio
      \/ /\ executionQueue[i].prio = executionQueue[j].prio
         /\ executionQueue[i].arr < executionQueue[j].arr

\* a push has just been sorted in front of an entry that arrived earlier,
\* behind an entry of its own priority from another request
C17_Witness ==
  /\ event.outcome = "queued"
  /\ Len(executionQueue) >= 3
  /\ \E i, j, k \in 1..Len(executionQueue) :
       /\ i < j /\ j < k
       /\ executionQueue[j].arr = Len(executionQueue)
       /\ executionQueue[i].prio = executionQueue[j].prio
       /\ executionQueue[i].req # executionQueue[j].req
       /\ executionQueue[k].prio < executionQueue[j].prio

\* the request has taken a capacity slot at some point
Started(c) ==
  \/ HasExecution(c)
  \/ calls[c].status \in {"executing", "returned"}
  \/ executeCount[c] > 0

\* C13 - Scenario with two slots and calls of priority 1, 5, 3 in that order:
\* the priority-5 and the priority-3 request start executing before the
\* priority-1 request, and at most 2 of the three are in flight.
C13_HighPriorityFirst ==
  /\ Started(1) => (Started(2) /\ Started(3))
  /\ InFlight <= 2

\* C13 as amended - the first two calls (priority 1 and 5) take the two slots
\* at once, the third call (priority 3) is backlogged and starts only after
\* them, and at most 2 of the three are in flight.
C13_CallOrderFirst ==
  /\ Started(3) => (Started(1) /\ Started(2))
  /\ (event.op = "call" /\ event.req = 1) => event.outcome = "admitted"
  /\ (event.op = "call" /\ event.req = 2) => event.outcome = "admitted"
  /\ (event.op = "call" /\ event.req = 3) =>
        /\ event.outcome = "queued"
        /\ {e.req : e \in execs} = {1, 2}
        /\ InBacklog(3)
  /\ InFlight <= 2
  /\ Cardinality(execs) <= 2

\* one of the first two executions has just ended and the drain started the
\* priority-3 request in its slot
C13_Witness ==
  /\ BurstDone
  /\ event.op = "release"
  /\ event.req \in {1, 2}
  /\ event.promoted = 3
  /\ InFlight = 2
\* C11 - Timeout race: of a tool's execute and the timeout timer, whichever
\* settles first alone decides the outcome of the execution. If execute
\* settles first its result is the outcome and the timer is left pending; the
\* timer decides only once timeoutMs has passed without execute settling, the
\* outcome is then the timeout failure and execute is left running. What the
\* loser does later changes neither the result nor the orchestrator.
C11_FirstSettlerDecides ==
  [][/\ (event'.op = "release" /\ event'.outcome \in {"success", "failure"}) =>
          /\ result'.success = (event'.outcome = "success")
          /\ result'.message = "tool"
          /\ result'.executionTime <= TimeoutTicks
          /\ background'.timers = background.timers + 1
          /\ background'.executes = background.executes
     /\ (event'.op = "release" /\ event'.outcome = "thrown") =>
          /\ result'.success = FALSE
          /\ result'.message = "thrown"
          /\ background'.timers = background.timers + 1
          /\ background'.executes = background.executes
     /\ (event'.op = "release" /\ event'.outcome = "Timeout") =>
          /\ clock[event'.id] = TimeoutTicks
          /\ result'.success = FALSE
          /\ result'.message = "timeout"
          /\ background'.executes = background.executes + 1
          /\ background'.timers = background.timers
     /\ event'.op \in {"late-execute", "stale-timer"} =>
          /\ result' = NoResult
          /\ runningExecutions' = runningExecutions
          /\ executionQueue' = executionQueue
          /\ execs' = execs
          /\ calls' = calls
    ]_vars

\* execute settled successfully in the very millisecond the timer was due:
\* the result is the tool's and the timer is left behind
C11_Witness ==
  /\ event.op = "release"
  /\ event.outcome = "success"
  /\ result.success
  /\ result.executionTime = TimeoutTicks
  /\ background.timers >= 1

\* a registered tool's execution has ended unsuccessfully, on either path
Unsuccessful ==
  /\ event.op = "release"
  /\ event.outcome \in {"Timeout", "thrown", "failure"}

\* C12 - For a registered tool executeTool never fails by exception: a
\* timeout, an exception thrown by execute and a tool-reported failure are all
\* delivered as a ToolResult with success = false, a message and an errors
\* list, on the direct path and on the backlogged path alike.
C12_FailuresCarryErrors ==
  /\ (event.op = "call" /\ tools[event.tool] # NoTool) =>
        event.outcome # "ToolNotFound"
  /\ event.op = "poll" => event.outcome # "ToolNotFound"
  /\ Unsuccessful =>
        /\ result.success = FALSE
        /\ result.message # "-"
        /\ result.errors = "list"

\* C12 as the code has it: no exception for a registered tool; a timeout and
\* an exception thrown by execute become a ToolResult with success = false, a
\* message and a one-element errors list; a tool-reported failure is the
\* tool's own ToolResult with success = false and a message, whose errors
\* list is optional.
C12_FailuresAsResults ==
  /\ (event.op = "call" /\ tools[event.tool] # NoTool) =>
        event.outcome # "ToolNotFound"
  /\ event.op = "poll" => event.outcome # "ToolNotFound"
  /\ Unsuccessful =>
        /\ result.success = FALSE
        /\ result.message # "-"
        /\ event.outcome \in {"Timeout", "thrown"} => result.errors = "list"
        /\ event.outcome = "failure" => result.message = "tool"

\* a backlogged request, admitted by its retry, has ended in a timeout
C12_Witness ==
  /\ Unsuccessful
  /\ event.outcome = "Timeout"
  /\ event.origin = "poll"
  /\ result.errors = "list"

\* C14 - Scenario, max concurrency = 1 with an execution that outlasts the
\* timeout: the timer fires once timeoutMs has passed, the caller then gets the
\* timeout failure, the slot is released in that same step while the abandoned
\* execute function is still running, and the request at the head of the
\* backlog is started by the drain of that step.
C14_TimeoutFreesSlot ==
  [][(maxConcurrent = 1 /\ event'.op = "release" /\ event'.outcome = "Timeout") =>
       /\ clock[event'.id] = TimeoutTicks
       /\ result'.success = FALSE
       /\ result'.message = "timeout"
       /\ event'.origin \in {"direct", "poll"} =>
            /\ event'.to = event'.req
            /\ calls'[event'.req].status = "returned"
       /\ event'.id \notin runningExecutions'
       /\ background'.executes >= 1
       /\ executionQueue # <<>> =>
            /\ event'.promoted = Head(executionQueue).req
            /\ \E e \in execs' : e.req = event'.promoted /\ e.origin = "drain"
            /\ InFlight' = 1
    ]_vars

\* the first call timed out with the second one backlogged behind it: the
\* second has been started while the first's execute is still running
C14_Witness ==
  /\ maxConcurrent = 1
  /\ event.op = "release"
  /\ event.outcome = "Timeout"
  /\ event.origin = "direct"
  /\ event.req = 1
  /\ event.promoted = 2
  /\ background.executes >= 1
  /\ \E e \in execs : e.req = 2

\* tool.execute invocations that have not settled: those still in their race
\* and those whose race the timer decided
RunningExecutes ==
  Cardinality({e \in execs : e.phase = "racing"}) + background.executes

\* C18 - The number of tool execute invocations running at the same time,
\* counting those abandoned after a timeout and still running in the
\* background, never exceeds maxConcurrent.
C18_ParallelExecutesBounded == RunningExecutes <= maxConcurrent

\* C19 - Every ToolResult returned for an admitted execution carries in
\* executionTime the duration measured between the start of the execution and
\* its outcome, for successful results and for failure and timeout results.
C19_ExecutionTimeMeasured ==
  (event.op = "release" /\ event.outcome \in ExecuteOutcomes \cup {"Timeout"}) =>
     result.executionTime = result.measured

\* C15 - Both suspension points are cancellable: once a caller has raised its
\* cancellation signal its request is in the backlog no longer and holds no
\* capacity slot, so a request cancelled while backlogged never takes a slot
\* and one cancelled during its race gives its slot back at once.
C15_CancelAbandons ==
  \A c \in CallIds :
    cancelled[c] # "no" => ~InBacklog(c) /\ ~HasExecution(c)

\* C20 - Register is last-write-wins: registerTool(t) never fails; after it a
\* lookup of t.name finds t, whatever was registered under that name before;
\* the registrations under other names and the scheduling state are unchanged;
\* and registering t again leaves the registry as it is.
C20_LastWriteWins ==
  /\ [](\A n \in ToolNames, i \in ToolImpls : ENABLED RegisterTool(n, i))
  /\ [][event'.op = "register" =>
          /\ ToolFound(tools', event'.tool)
          /\ tools'[event'.tool] = event'.outcome
          /\ event'.outcome \in getAvailableTools(tools')
          /\ \A n \in ToolNames \ {event'.tool} : tools'[n] = tools[n]
          /\ registerTool(tools', event'.tool, event'.outcome) = tools'
          /\ UNCHANGED <<executionQueue, runningExecutions, execs, calls>>
       ]_vars

\* the built-in tool's name has been registered again, with another tool, and
\* a name that was free has been registered too
C20_Witness ==
  /\ event.op = "register"
  /\ event.tool = "code-analysis"
  /\ tools["code-analysis"] = "custom"
  /\ tools["unknown-tool"] = "builtin"

\* C24 - Once the timer has decided an execution, the later settling of the
\* abandoned execute function changes nothing: not the in-flight set, not the
\* backlog, not the executions under way nor their clocks, not what the
\* callers have been returned, and it returns nothing; likewise the firing of
\* a timer whose race execute decided.
C24_LoserChangesNothing ==
  [][event'.op \in {"late-execute", "stale-timer"} =>
       /\ UNCHANGED <<tools, maxConcurrent, executionQueue, runningExecutions,
                      execs, calls, executeCount, clock, cancelled>>
       /\ result' = NoResult
       /\ (event'.op = "late-execute") =>
            /\ background'.executes = background.executes - 1
            /\ background'.timers = background.timers
       /\ (event'.op = "stale-timer") =>
            /\ background'.timers = background.timers - 1
            /\ background'.executes = background.executes
    ]_vars

\* the first call was returned its timeout, the second now holds the slot, and
\* the first call's execute function has just settled
C24_Witness ==
  /\ event.op = "late-execute"
  /\ calls[1].status = "returned"
  /\ \E e \in execs : e.req = 2 /\ e.phase = "racing"
  /\ runningExecutions # {}

\* C25 - Work conservation: with maxConcurrent >= 1, in every state between
\* two steps, a non-empty backlog means that every slot is taken; a free slot
\* and a backlog entry never coexist.
C25_WorkConserving ==
  (maxConcurrent >= 1 /\ executionQueue # <<>>) => InFlight = maxConcurrent

\* a release has just promoted the head of the backlog and left entries behind
C25_Witness ==
  /\ maxConcurrent >= 1
  /\ event.op = "release"
  /\ event.promoted # 0
  /\ executionQueue # <<>>
  /\ InFlight = maxConcurrent

\* the entries the backlog holds for call c
EntriesOf(c) == {i \in 1..Len(executionQueue) : executionQueue[i].req = c}

\* the executeTool calls that have not been answered
Outstanding == {c \in CallIds : calls[c].status \in {"polling", "executing"}}

\* C26 - The backlog holds at most one entry per outstanding executeTool call
\* and none for a call that has been answered, so that it is never longer
\* than the number of outstanding calls, whatever the number of polling
\* retries that found every slot taken.
C26_OneEntryPerCall ==
  /\ \A c \in CallIds : Cardinality(EntriesOf(c)) <= 1
  /\ \A c \in CallIds : Terminal(c) => EntriesOf(c) = {}
  /\ Len(executionQueue) <= Cardinality(Outstanding)

\* C30 - Two executions in flight at the same time never share an execution
\* identifier: runningExecutions has one element per execution admitted and
\* not yet released, and the release of one execution leaves the identifier
\* of every other in the set.
C30_DistinctIds ==
  /\ \A e1, e2 \in execs : e1 # e2 => e1.id # e2.id
  /\ Cardinality(runningExecutions) = Cardinality(execs)
  /\ \A e \in execs : e.id \in runningExecutions

\* C21 - getConfig (and with it every section getter) fails on an object as
\* long as no initialize() has succeeded on that object, and from the first
\* successful initialize() on returns the configuration parsed last; an
\* initialize() that fails leaves the object as it was.
C21_ConfigGated ==
  /\ [](\A o \in ObjectIds : (config[o] = NoConfig) <=> (o \notin initialized))
  /\ [][/\ event'.op = "getConfig" =>
             /\ observed'.ref = event'.id
             /\ observed'.threw <=> (event'.id \notin initialized)
             /\ ~observed'.threw =>
                  /\ observed'.value = config[event'.id]
                  /\ observed'.value # NoConfig
                  /\ observed'.value.level \in LogLevels
        /\ (event'.op = "configure" /\ event'.outcome = "threw") =>
             /\ config' = config
             /\ initialized' = initialized
        /\ (event'.op = "configure" /\ event'.outcome = "ok") =>
             /\ config'[event'.id] = parse(rawConfig(env))
             /\ event'.id \in initialized'
       ]_vars

\* the configuration was read back after initialize() had succeeded with
\* LOG_LEVEL = debug and a later initialize() could not succeed
C21_Witness ==
  /\ event.op = "getConfig"
  /\ ~observed.threw
  /\ observed.value.level = "debug"
  /\ env.LOG_LEVEL = "verbose"

\* C22 - ConfigManager is a singleton: all calls of getInstance, in any
\* sequence and however many, return one and the same object, exactly one
\* object is ever constructed, and a configuration initialized through one
\* reference is what getConfig gives through every other.
C22_Singleton ==
  /\ Cardinality(handed) <= 1
  /\ created <= 1
  /\ handed # {} => handed = {instance}
  /\ \A a, b \in handed : getConfig(config[a]) = getConfig(config[b])

\* getInstance has been called again after the configuration was initialized
\* and gave the object that holds it
C22_Witness ==
  /\ event.op = "getInstance"
  /\ event.id \in initialized
  /\ config[event.id] # NoConfig

\* C23 - After a successful initialize() every setting whose environment
\* variable is unset has the default the schema declares for it, and a
\* setting whose variable is set has the value from the environment.
C23_DefaultsApply ==
  [][(event'.op = "configure" /\ event'.outcome = "ok") =>
       LET c == config'[event'.id]
       IN /\ env.LOG_LEVEL = "unset" => c.level = SchemaDefaults.level
          /\ env.MAX_CONCURRENT_TOOLS = "unset" =>
               c.maxConcurrent = SchemaDefaults.maxConcurrent
          /\ env.AUDIT_LOGGING = "unset" =>
               c.auditLogging = SchemaDefaults.auditLogging
          /\ env.LOG_LEVEL \in LogLevels => c.level = env.LOG_LEVEL
          /\ env.MAX_CONCURRENT_TOOLS = "3" => c.maxConcurrent = 3
          /\ env.AUDIT_LOGGING \in {"true", "false"} =>
               c.auditLogging = (env.AUDIT_LOGGING = "true")
    ]_vars

\* C29 - validateInput returns isValid = true only if every registered rule
\* returned isValid = true for the input, and then reports the highest risk
\* level any rule returned; otherwise the first rule, in registration order,
\* that rejected or threw decides and no later rule is evaluated: the result
\* is that rule's own if it rejected, and isValid = false with riskLevel
\* critical if it threw.
C29_FirstFailureDecides ==
  [][event'.op = "validate" =>
       LET v == validation'.result
           did == validation'.did
           Fails(i) == did[rules[i]].threw \/ ~did[rules[i]].isValid
       IN /\ v.isValid <=> (\A i \in 1..Len(rules) : ~Fails(i))
          /\ v.isValid =>
               /\ v.evaluated = Len(rules)
               /\ \A i \in 1..Len(rules) :
                    getRiskLevelOrder(did[rules[i]].riskLevel)
                      <= getRiskLevelOrder(v.riskLevel)
               /\ \/ v.riskLevel = "low"
                  \/ \E i \in 1..Len(rules) : did[rules[i]].riskLevel = v.riskLevel
          /\ ~v.isValid =>
               /\ v.rule \in 1..Len(rules)
               /\ Fails(v.rule)
               /\ \A j \in 1..(v.rule - 1) : ~Fails(j)
               /\ v.evaluated = v.rule
               /\ IF did[rules[v.rule]].threw
                  THEN v.riskLevel = "critical" /\ v.error
                  ELSE v.riskLevel = did[rules[v.rule]].riskLevel /\ ~v.error
    ]_vars

\* every rule accepted; the first found a high risk, the last a medium one
C29_Witness ==
  /\ event.op = "validate"
  /\ rules # <<>>
  /\ validation.result.isValid
  /\ validation.result.riskLevel = "high"
  /\ validation.did[RuleNames[1]].riskLevel = "high"
  /\ validation.did[RuleNames[Len(RuleNames)]].riskLevel = "medium"

\* C27 - AutonomousAgent.initialize initializes each component at most once
\* per agent, whatever the sequence of initialize() calls: the security
\* rules are registered once and the learning engine's timer is set once.
C27_ComponentsOnce ==
  /\ \A k \in 1..Len(AgentComponents) : installs[k] <= 1
  /\ Len(rules) <= Len(RuleNames)

====
